---- MODULE Spec2Model ----
(***************************************************************************)
(* Model of the comment harvest engine of src/content/page-script.js:      *)
(* SimpleQueue, fetchWithRetry, saveCommentBatch / getAllComments and the  *)
(* extractComments session (pipelined main walk, parallel reply queue,     *)
(* non-blocking writes, barriers, final read, emergency DOM scrape).       *)
(*                                                                         *)
(* The page script runs on one JavaScript thread: code between two awaits  *)
(* is atomic, so every action below is one resumption of one async         *)
(* function (a network response, a timer, an IndexedDB event) run up to    *)
(* the next suspension point of everything it resumes.                     *)
(***************************************************************************)
EXTENDS Integers, Sequences, FiniteSets, TLC

\* ---------------------------------------------------------------- bounds
MaxPages == 2          \* length of the longest main page chain served
MaxRoots == 2          \* root comments on one main page
MaxReplyTokens == 2    \* distinct reply continuation tokens the server knows
MaxReplyRecs == 1      \* reply comments in one reply response
MaxDomThreads == 1     \* rendered threads the emergency scrape can find
MaxSessions == 2       \* accepted extractComments calls in one page lifetime
MaxRejected == 1       \* extractComments calls turned away by the guard
MaxEntityKeys == 2     \* distinct entity keys the server uses
MaxMutations == 2      \* mutations in one frameworkUpdates.entityBatchUpdate
MaxUpdates == 2        \* responses whose frameworkUpdates are merged
MaxNesting == 103       \* nested levels of the deepest thread chain
MaxCounted == 6         \* highest number of requests per reply token that is counted
MaxVideos == 2         \* distinct videos a download request can list
MaxStarts == 2         \* YCA_START_DOWNLOAD messages the worker receives
MaxManual == 1         \* YCA_VIDEO_DATA_READY messages of manually opened video pages
MaxTimers == 2         \* setTimeout(processNextVideo) callbacks pending at once

\* ------------------------------------------------------ program constants
ReplyConcurrency == 4  \* new SimpleQueue(4)
SafetyCeiling == 100000 \* if (batchNumber > 100000) break
DepthCap == 100         \* if (depth > 100) return []

\* --------------------------------------------------------------- variables
VARIABLES
    \* the remote data set as far as the session has seen it
    npages,               \* length of the main page chain (page k < npages carries a next token)
    loopTo,               \* the page the last page's next token leads back to (0: none)
    replyCycles,          \* reply continuations may lead back to a token already fetched
    pages,                \* pages[k]: the response the k-th main fetch got
    replies,              \* replies[r]: the server's answer to reply token r, once seen
    \* extractComments
    isExtracting,
    pc,                   \* "idle", "fetching", "onIdle", "barrier", "reading", "done", "failed"
    mainFetch,            \* the main fetch in flight (fetchCommentsViaContinuation)
    batchNumber,
    totalFetched,
    totalRepliesFetched,
    processedReplyTokens,
    submitted,            \* dedup keys of the tasks given to replyQueue.add, in call order
    pendingWrites,        \* handles of saveCommentBatch, in push order
    barrier,              \* number of handles Promise.all was called with
    store,                \* the IndexedDB object store, keyed by id
    snapshot,             \* result of the final getAllComments
    fallbackRan,          \* the emergency DOM scrape block was entered
    returned,             \* how the promise of extractComments settled (null before)
    \* replyQueue (SimpleQueue)
    running,
    queue,
    active,               \* the started reply tasks and their sub-walks
    \* observation counters
    mainCalls,            \* calls of fetchCommentsViaContinuation
    mainFetches,          \* main continuation requests sent
    replyFetches,         \* replyFetches[r]: reply requests sent for token r
    handed,               \* records ever handed to saveCommentBatch by the pipeline
    lastPass,             \* what the latest pass of the loop body did, in order
    \* one fetchWithRetry call
    rtPc,                 \* "idle", "fetch", "wait", "done"
    rtRetries,
    rtBackoff,
    rtOutcomes,           \* outcome of every fetch(url, options) made so far
    rtWaits,              \* every setTimeout delay awaited so far
    rtResult,             \* "none", "response", "sentinel", "raised"
    \* a client of a SimpleQueue of its own (add / onIdle callers)
    qStatus,              \* qStatus[t]: "new", "queued", "running", "resolved", "rejected"
    idleState,            \* onIdle(): "notcalled", "waiting", "resolved"
    clientSync,           \* the client's synchronous code is running
    calledAt,             \* tasks added when onIdle() was called (-1 before)
    sameTurn,             \* the caller of onIdle() has not yielded since the call
    syncAfter,            \* tasks added after that call before the caller yielded
    \* the callers of extractComments over the lifetime of the page
    sessionNo,            \* calls that passed the isExtracting guard
    rejectedCalls,        \* calls that returned null at the guard
    clearedStale,         \* the latest clearCommentStore removed at least one record
    \* the EntityStore (a Map) shared by all fetches of a session
    entityStore,
    esInit,               \* the store as parsed from ytInitialData.frameworkUpdates
    esUpdates,            \* the mutation lists of the responses merged so far, in order
    \* one comment thread on its way from the response to the store
    rawThreads,           \* the commentThreadRenderer given to processCommentThread (at most one)
    results,              \* the records produced for it so far
    replyTokenCollector,  \* the descriptors processCommentThread collected
    saved,                \* the rows saveCommentBatch has put
    \* one chain of commentThreadRenderers nested in one another
    chain,                \* nested levels below the outermost thread (-1: none given)
    entryDepth,           \* the depth argument of the outermost processCommentThread call
    level,                \* the nested level whose call is about to run (-1: descent over)
    kept,                 \* the levels whose root record is in the returned list
    \* the page's message channel
    posted,               \* the YCA_DATA_EXTRACTED messages posted so far, in order
    \* the background service worker
    videoQueue,           \* let videoQueue = []
    isProcessing,         \* let isProcessing = false
    mainTabId,            \* the tab that asked for the download (0: null)
    storagePending,       \* chrome.storage.local.set callbacks not yet run
    timers,               \* setTimeout(processNextVideo, 1000) callbacks not yet run
    opened,               \* the tabs created so far, in order, each with whether an
                          \* earlier tab was still unanswered at that moment
    unanswered,           \* per video: tabs created for it whose data has not arrived
    completes,            \* the YCA_QUEUE_COMPLETE messages sent, each with whether every
                          \* queued video had been opened and answered at that moment
    queued,               \* the videos listed by the download requests so far
    starts,               \* YCA_START_DOWNLOAD messages received
    manualMsgs            \* YCA_VIDEO_DATA_READY messages received from manual pages

sessionVars == <<npages, loopTo, replyCycles, pages, replies, isExtracting, pc, mainFetch, batchNumber,
                 totalFetched, totalRepliesFetched, processedReplyTokens, submitted,
                 pendingWrites, barrier, store, snapshot, fallbackRan, returned,
                 active, mainCalls, mainFetches, replyFetches, handed, lastPass>>

queueVars == <<running, queue>>

retryVars == <<rtPc, rtRetries, rtBackoff, rtOutcomes, rtWaits, rtResult>>

clientVars == <<qStatus, idleState, clientSync, calledAt, sameTurn, syncAfter>>

callVars == <<sessionNo, rejectedCalls, clearedStale>>

entityVars == <<entityStore, esInit, esUpdates>>

threadVars == <<rawThreads, results, replyTokenCollector, saved>>

depthVars == <<chain, entryDepth, level, kept>>

pageVars == <<posted>>

workerVars == <<videoQueue, isProcessing, mainTabId, storagePending, timers, opened,
                unanswered, completes, queued, starts, manualMsgs>>

moreVars == <<depthVars, pageVars, workerVars>>

auxVars == <<callVars, entityVars, threadVars, moreVars>>

vars == <<sessionVars, queueVars, retryVars, clientVars, auxVars>>

\* ------------------------------------------------------------------ values
ReplyTokens == 1..MaxReplyTokens

\* How a reply continuation reaches the collector in processCommentThread:
\*  "endpoint": continuationItemRenderer in subThreads / continuationItems (endpoint object)
\*  "legacy":   continuationItemRenderer in repliesRenderer.contents (endpoint object,
\*              seen by the merged loop and again by the legacy contents loop)
\*  "string":   View-replies button or continuations array (raw token string)
Shapes == {"endpoint", "legacy", "string"}

Descriptors == [tok : ReplyTokens, shape : Shapes]

DescSeqs == {<<>>} \cup {<<d>> : d \in Descriptors}

RootRecs(k, n) == {[id |-> <<"root", k, j>>, isReply |-> FALSE] : j \in 1..n}

ReplyRecs(r, n) == {[id |-> <<"reply", r, j>>, isReply |-> TRUE] : j \in 1..n}

ScrapedRecs(n) == {[id |-> <<"scraped", 0, j>>, isReply |-> FALSE] : j \in 1..n}

StaleRec == [id |-> <<"stale", 0, 0>>, isReply |-> FALSE]

NoReply == [seen |-> FALSE]

ReplyResponses(r) ==
    {[seen |-> TRUE, nrecs |-> n, more |-> m] :
        n \in 0..MaxReplyRecs,
        m \in {<<>>} \cup (IF r < MaxReplyTokens THEN {<<r + 1>>} ELSE {})
                   \cup (IF replyCycles THEN {<<b>> : b \in 1..r} ELSE {})}

NoFetch == [phase |-> "none"]

\* a variant that hands the walk its first token again
EmptyBatchRestart == [comments |-> {}, nextToken |-> 1, replyTokens |-> <<>>]

\* "return { comments: [], nextToken: null }" of fetchCommentsViaContinuation
EmptyBatch == [comments |-> {}, nextToken |-> 0, replyTokens |-> <<>>]

Ids(recs) == {c.id : c \in recs}

\* store.put(c) for every record of a committed batch: one row per id
StorePut(st, recs) == {c \in st : c.id \notin Ids(recs)} \cup recs


\* ------------------------------------------------------------- SimpleQueue
\* a variant whose limit test is off by one
ProcessReturnsEarlyOffByOne(r, q, concurrency) == r > concurrency \/ Len(q) = 0

\* process(): "if (this.running >= this.concurrency || this.queue.length === 0) return"
ProcessReturnsEarly(r, q, concurrency) == r >= concurrency \/ Len(q) = 0

\* a variant that waits for the queue to drain but not for the started tasks
OnIdleWaitsQueueOnly(r, q) == Len(q) > 0

\* onIdle(): "while (this.running > 0 || this.queue.length > 0) await timer"
OnIdleWaits(r, q) == r > 0 \/ Len(q) > 0

\* ------------------------------------------------------- extractComments
\* tokenKey = token?.continuationCommand?.token || token?.token || JSON.stringify(token):
\* an endpoint object yields its token string, a raw string yields its JSON text
\* (the string in quotes), which differs from the string itself.
DedupKey(d) == IF d.shape = "string" THEN <<"json", d.tok>> ELSE <<"token", d.tok>>

\* fetchReplies: "const continuation = endpoint?.continuationCommand?.token;
\* if (!apiKey || !context || !continuation) return null" -- a raw string has no
\* continuationCommand, so no request is sent for it.
SendsRequest(d) == d.shape # "string"

\* the request counters stop counting at MaxCounted
Counted(n) == IF n < MaxCounted THEN n + 1 ELSE n

\* process() on the reply queue, with the task body of extractComments run up to
\* its first network suspension.  s = [running, queue, active, replyFetches, ...].
RECURSIVE Process(_)
Process(s) ==
    IF ProcessReturnsEarly(s.running, s.queue, ReplyConcurrency) THEN s
    ELSE LET d == Head(s.queue)
             s1 == [s EXCEPT !.running = @ + 1, !.queue = Tail(@)]
         IN  IF SendsRequest(d)
             THEN [s1 EXCEPT !.active = @ \cup {[desc |-> d, todo |-> <<d.tok>>,
                                                 collected |-> {}]},
                             !.replyFetches[d.tok] = Counted(@)]
             \* fetchReplies returned null at once: the task settles in the same
             \* turn, "finally { this.running--; this.process() }"
             ELSE Process([s1 EXCEPT !.running = @ - 1])

\* a variant that never finds a key
HasKeyNever(processed, key) == FALSE

\* "processedReplyTokens.has(tokenKey)"
HasKey(processed, key) == key \in processed

\* "for (const replyToken of result.replyTokens)": skip duplicates, else record the
\* key and replyQueue.add(...).  Returns [s, processed].
RECURSIVE EnqueueAll(_, _, _)
EnqueueAll(descs, s, processed) ==
    IF descs = <<>> THEN [s |-> s, processed |-> processed]
    ELSE LET d == Head(descs)
             key == DedupKey(d)
         IN  IF HasKey(processed, key)
             THEN EnqueueAll(Tail(descs), s, processed)
             ELSE EnqueueAll(Tail(descs),
                             Process([s EXCEPT !.queue = Append(@, d),
                                               !.submitted = Append(@, key)]),
                             processed \cup {key})

\* a variant that also keeps walking while batches still carry comments
IssueNextWhileComments(result) == result.nextToken # 0 \/ Cardinality(result.comments) > 0

\* "if (result?.nextToken) nextPromise = fetchCommentsViaContinuation(...)"
IssueNext(result) == result.nextToken # 0

\* extractNextContinuation on the k-th page of the chain
NextTokenOf(k) == IF k < npages THEN k + 1 ELSE loopTo

\* saveCommentBatch(db, comments): a new handle, in flight
NewWrite(recs) == [recs |-> recs, status |-> "inflight"]

\* a variant that returns with the first handle to settle (Promise.race)
AnySettled(ws, n) == n = 0 \/ \E i \in 1..n : ws[i].status # "inflight"

\* a variant that goes on only when every write has succeeded
AllStored(ws, n) == \A i \in 1..n : ws[i].status = "ok"

\* await Promise.all(pendingWrites) over the handles it was called with
AllSettled(ws, n) == \A i \in 1..n : ws[i].status # "inflight"

\* a variant gated on the session's counters instead of the list read back
ShouldRunFallbackByCount(final) == totalFetched + totalRepliesFetched = 0

\* "if (finalComments.length === 0)" guarding the emergency DOM scrape
ShouldRunFallback(final) == Cardinality(final) = 0

\* a variant that lets one more batch through
PastCeilingOffByOne(bn) == bn > SafetyCeiling + 1

\* "if (batchNumber > 100000) break" after "batchNumber++"
PastCeiling(bn) == bn > SafetyCeiling

\* a variant that starts the next fetch only after the batch has been processed
PassEffectsFetchLast(issue, write, nadds) ==
    (IF write THEN <<"save">> ELSE <<>>) \o [i \in 1..nadds |-> "add"]
        \o (IF issue THEN <<"fetch">> ELSE <<>>)

\* the calls one pass of the loop body makes after "await currentPromise", in
\* statement order: fetchCommentsViaContinuation(result.nextToken, ...) under
\* "if (result?.nextToken)", then saveCommentBatch(db, result.comments), then one
\* replyQueue.add per descriptor that is not skipped
PassEffects(issue, write, nadds) ==
    (IF issue THEN <<"fetch">> ELSE <<>>) \o (IF write THEN <<"save">> ELSE <<>>)
        \o [i \in 1..nadds |-> "add"]

\* One pass of the body of "while (currentPromise)" after "await currentPromise"
\* delivered `result`; rf is replyFetches as the delivering step left it.
Deliver(result, rf) ==
    IF pc # "fetching"
    THEN \* the loop was left at the safety ceiling: nobody awaits this promise
         /\ mainFetch' = NoFetch
         /\ replyFetches' = rf
         /\ UNCHANGED <<pc, batchNumber, totalFetched, processedReplyTokens, submitted,
                        pendingWrites, running, queue, active, mainCalls,
                        mainFetches, handed, lastPass>>
    ELSE LET issue == IssueNext(result)
             write == Cardinality(result.comments) > 0
             enq == EnqueueAll(result.replyTokens,
                               [running |-> running, queue |-> queue,
                                active |-> active, replyFetches |-> rf,
                                submitted |-> submitted],
                               processedReplyTokens)
             bn == batchNumber + 1
         IN  /\ mainFetch' = IF issue THEN [phase |-> "net", tok |-> result.nextToken]
                                      ELSE NoFetch
             /\ mainCalls' = IF issue THEN mainCalls + 1 ELSE mainCalls
             /\ mainFetches' = IF issue THEN mainFetches + 1 ELSE mainFetches
             /\ pendingWrites' = IF write THEN Append(pendingWrites, NewWrite(result.comments))
                                          ELSE pendingWrites
             /\ totalFetched' = totalFetched + Cardinality(result.comments)
             /\ handed' = handed \cup result.comments
             /\ lastPass' = PassEffects(issue, write, Len(enq.s.submitted) - Len(submitted))
             /\ processedReplyTokens' = enq.processed
             /\ submitted' = enq.s.submitted
             /\ running' = enq.s.running
             /\ queue' = enq.s.queue
             /\ active' = enq.s.active
             /\ replyFetches' = enq.s.replyFetches
             /\ batchNumber' = bn
             /\ pc' = IF ~issue \/ PastCeiling(bn) THEN "onIdle" ELSE "fetching"

\* a variant that leaves the rows of the object store in place
ClearCommentStoreSkipped(st) == st

\* clearCommentStore(db): "store.clear()"
ClearCommentStore(st) == {}

\* extractComments(videoId) accepted: guard taken, store cleared, queue and
\* pendingWrites created, first fetchCommentsViaContinuation(continuationToken).
\* seed = 0: no continuation token was found, or the API key or client context is
\* missing ("if (!apiKey || !context || !continuation) return { comments: [],
\* nextToken: null }"): the call returns an empty batch without a request and the
\* loop body runs once on it.
\* Modelled sessions start from the "Newest first" token or from no usable token on
\* a page whose section data holds no comment thread yet; initDB / clearCommentStore
\* succeed.
StartSession(seed) ==
    /\ pc = "idle"
    /\ ~isExtracting
    /\ isExtracting' = TRUE
    /\ store' = ClearCommentStore(store)
    /\ mainCalls' = 1
    /\ mainFetches' = IF seed = 0 THEN 0 ELSE 1
    /\ mainFetch' = IF seed = 0 THEN NoFetch ELSE [phase |-> "net", tok |-> seed]
    /\ batchNumber' = IF seed = 0 THEN 2 ELSE 1
    /\ pc' = IF seed = 0 THEN "onIdle" ELSE "fetching"
    /\ UNCHANGED <<retryVars, clientVars, auxVars>>
    /\ UNCHANGED <<npages, loopTo, replyCycles, pages, replies, totalFetched, totalRepliesFetched,
                   processedReplyTokens, submitted, pendingWrites, barrier, snapshot,
                   fallbackRan, returned, running, queue, active, replyFetches,
                   handed, lastPass>>


\* fetchReplies on the token at the head of a sub-walk w = [todo, collected]:
\* a successful response adds its comments and puts the continuations it carries in
\* front ("const more = await fetchReplies(nextToken, ...)", depth first); a failed one
\* ("if (!response.ok) return null", or the catch) adds nothing.
Advance(w, outcome, resp) ==
    IF outcome = "ok"
    THEN [todo |-> resp.more \o Tail(w.todo),
          collected |-> w.collected \cup ReplyRecs(Head(w.todo), resp.nrecs)]
    ELSE [todo |-> Tail(w.todo), collected |-> w.collected]

\* the answers the server can give to reply token r (the same one every time)
AnswersTo(r) == IF replies[r].seen THEN {replies[r]} ELSE ReplyResponses(r)

LegacyTokens(descs) ==
    LET leg == SelectSeq(descs, LAMBDA d : d.shape = "legacy")
    IN  [i \in 1..Len(leg) |-> leg[i].tok]

\* one more request for the token at the head of todo
Bump(rf, todo) == IF todo = <<>> THEN rf ELSE [rf EXCEPT ![Head(todo)] = Counted(@)]

\* The response to the main request in flight arrives and
\* fetchCommentsViaContinuation runs on it.  outcome "fail": the retry transport's
\* sentinel or a non-success status; "malformed": response.json() rejects.
MainResponse(outcome, nroots, descs) ==
    /\ mainFetch.phase = "net"
    /\ LET k == mainFetch.tok
           legacy == LegacyTokens(descs)
           batch == [comments |-> RootRecs(k, nroots), nextToken |-> NextTokenOf(k),
                     replyTokens |-> descs]
       IN  /\ pages' = Append(pages, [outcome |-> outcome, nroots |-> nroots,
                                      descs |-> descs])
           /\ IF outcome # "ok" THEN Deliver(EmptyBatch, replyFetches)
              ELSE IF legacy = <<>> THEN Deliver(batch, replyFetches)
              ELSE \* legacy contents loop: "await fetchReplies(token, ...)" inline
                   /\ mainFetch' = [phase |-> "inline", tok |-> k, todo |-> legacy,
                                    batch |-> batch]
                   /\ replyFetches' = Bump(replyFetches, legacy)
                   /\ UNCHANGED <<pc, batchNumber, totalFetched, processedReplyTokens, submitted,
                                  pendingWrites, running, queue, active, mainCalls,
                                  mainFetches, handed, lastPass>>
    /\ UNCHANGED <<retryVars, clientVars, auxVars>>
    /\ UNCHANGED <<npages, loopTo, replyCycles, replies, isExtracting, totalRepliesFetched, barrier,
                   store, snapshot, fallbackRan, returned>>

\* The response to a reply request sent inline by processCommentThread arrives.
InlineResponse(outcome, resp) ==
    /\ mainFetch.phase = "inline"
    /\ LET r == Head(mainFetch.todo)
           w == Advance([todo |-> mainFetch.todo, collected |-> mainFetch.batch.comments],
                        outcome, resp)
           batch == [mainFetch.batch EXCEPT !.comments = w.collected]
       IN  /\ outcome = "ok" => resp \in AnswersTo(r)
           /\ replies' = IF outcome = "ok" THEN [replies EXCEPT ![r] = resp] ELSE replies
           /\ IF w.todo = <<>> THEN Deliver(batch, replyFetches)
              ELSE /\ mainFetch' = [mainFetch EXCEPT !.todo = w.todo, !.batch = batch]
                   /\ replyFetches' = Bump(replyFetches, w.todo)
                   /\ UNCHANGED <<pc, batchNumber, totalFetched, processedReplyTokens, submitted,
                                  pendingWrites, running, queue, active, mainCalls,
                                  mainFetches, handed, lastPass>>
    /\ UNCHANGED <<retryVars, clientVars, auxVars>>
    /\ UNCHANGED <<npages, loopTo, replyCycles, pages, isExtracting, totalRepliesFetched, barrier,
                   store, snapshot, fallbackRan, returned>>

\* The response to the request of reply task t arrives.  When its sub-walk is
\* exhausted the task body ends (a non-empty list is written without awaiting) and
\* SimpleQueue.process runs its finally block.
TaskResponse(t, outcome, resp) ==
    /\ t \in active
    /\ LET r == Head(t.todo)
           w == Advance([todo |-> t.todo, collected |-> t.collected], outcome, resp)
           write == Cardinality(w.collected) > 0
           s == Process([running |-> running - 1, queue |-> queue,
                         active |-> active \ {t}, replyFetches |-> replyFetches])
       IN  /\ outcome = "ok" => resp \in AnswersTo(r)
           /\ replies' = IF outcome = "ok" THEN [replies EXCEPT ![r] = resp] ELSE replies
           /\ IF w.todo = <<>>
              THEN /\ pendingWrites' = IF write THEN Append(pendingWrites, NewWrite(w.collected))
                                                ELSE pendingWrites
                   /\ totalRepliesFetched' = totalRepliesFetched + Cardinality(w.collected)
                   /\ handed' = handed \cup w.collected
                   /\ running' = s.running
                   /\ queue' = s.queue
                   /\ active' = s.active
                   /\ replyFetches' = s.replyFetches
              ELSE /\ active' = (active \ {t}) \cup
                                {[t EXCEPT !.todo = w.todo, !.collected = w.collected]}
                   /\ replyFetches' = Bump(replyFetches, w.todo)
                   /\ UNCHANGED <<pendingWrites, totalRepliesFetched, handed, running, queue>>
    /\ UNCHANGED <<retryVars, clientVars, auxVars>>
    /\ UNCHANGED <<npages, loopTo, replyCycles, pages, isExtracting, pc, mainFetch, batchNumber, totalFetched,
                   processedReplyTokens, submitted, barrier, store, snapshot, fallbackRan, returned,
                   mainCalls, mainFetches, lastPass>>

\* The transaction of write i ends: "tx.oncomplete = () => resolve()" with the batch
\* stored, or "tx.onerror = ... resolve()" with nothing stored.
WriteSettle(i, outcome) ==
    /\ i \in 1..Len(pendingWrites)
    /\ pendingWrites[i].status = "inflight"
    /\ pendingWrites' = [pendingWrites EXCEPT ![i].status = outcome]
    /\ store' = IF outcome = "ok" THEN StorePut(store, pendingWrites[i].recs) ELSE store
    /\ UNCHANGED <<retryVars, clientVars, auxVars>>
    /\ UNCHANGED <<npages, loopTo, replyCycles, pages, replies, isExtracting, pc, mainFetch, batchNumber,
                   totalFetched, totalRepliesFetched, processedReplyTokens, submitted, barrier,
                   snapshot, fallbackRan, returned, running, queue, active, mainCalls,
                   mainFetches, replyFetches, handed, lastPass>>

\* "await replyQueue.onIdle()" returns, then Promise.all(pendingWrites) is called
OnIdleResolve ==
    /\ pc = "onIdle"
    /\ ~OnIdleWaits(running, queue)
    /\ pc' = "barrier"
    /\ barrier' = Len(pendingWrites)
    /\ UNCHANGED <<retryVars, clientVars, auxVars>>
    /\ UNCHANGED <<npages, loopTo, replyCycles, pages, replies, isExtracting, mainFetch, batchNumber,
                   totalFetched, totalRepliesFetched, processedReplyTokens, submitted, pendingWrites,
                   store, snapshot, fallbackRan, returned, running, queue, active,
                   mainCalls, mainFetches, replyFetches, handed, lastPass>>

\* "await Promise.all(pendingWrites)" returns, then getAllComments(db) is issued
BarrierResolve ==
    /\ pc = "barrier"
    /\ AllSettled(pendingWrites, barrier)
    /\ pc' = "reading"
    /\ UNCHANGED <<retryVars, clientVars, auxVars>>
    /\ UNCHANGED <<npages, loopTo, replyCycles, pages, replies, isExtracting, mainFetch, batchNumber,
                   totalFetched, totalRepliesFetched, processedReplyTokens, submitted, pendingWrites,
                   barrier, store, snapshot, fallbackRan, returned, running, queue, active,
                   mainCalls, mainFetches, replyFetches, handed, lastPass>>

\* getAllComments resolves; emergency DOM scrape over ndom rendered threads if the
\* list is empty; guard released; "return finalComments.length > 0 ? finalComments : null"
ReadComplete(ndom) ==
    /\ pc = "reading"
    /\ LET scrape == ShouldRunFallback(store)
           final == IF scrape THEN store \cup ScrapedRecs(ndom) ELSE store
       IN  /\ ~scrape => ndom = 0
           /\ snapshot' = store
           /\ fallbackRan' = scrape
           /\ returned' = [null |-> final = {}, comments |-> final, raised |-> FALSE]
    /\ isExtracting' = FALSE
    /\ pc' = "done"
    /\ UNCHANGED <<retryVars, clientVars, auxVars>>
    /\ UNCHANGED <<npages, loopTo, replyCycles, pages, replies, mainFetch, batchNumber, totalFetched,
                   totalRepliesFetched, processedReplyTokens, submitted, pendingWrites, barrier,
                   store, running, queue, active, mainCalls, mainFetches, replyFetches,
                   handed, lastPass>>

\* a variant whose catch block leaves the guard set
GuardAfterCatchKept == TRUE

\* "isExtracting = false" in the catch block
GuardAfterCatch == FALSE

\* a variant whose catch block lets the error escape
OnSessionCatchRethrow(e) == "raise"

\* "} catch (e) { console.error(...); isExtracting = false; return null; }"
OnSessionCatch(e) == "null"

\* the value the promise of extractComments settles with when error e reaches the
\* catch block of the function body
CatchResult(e) ==
    [null |-> TRUE, comments |-> {}, raised |-> OnSessionCatch(e) = "raise"]

\* "const db = await initDB()" or "await clearCommentStore(db)" rejects
\* ("request.onerror = (e) => reject(...)", "req.onerror = (e) => reject(...)"):
\* the guard was taken, nothing was cleared, the catch block ends the call
SetupFails(e) ==
    /\ pc = "idle"
    /\ ~isExtracting
    /\ isExtracting' = GuardAfterCatch
    /\ pc' = "failed"
    /\ returned' = CatchResult(e)
    /\ UNCHANGED <<retryVars, clientVars, auxVars>>
    /\ UNCHANGED <<npages, loopTo, replyCycles, pages, replies, mainFetch, batchNumber, totalFetched,
                   totalRepliesFetched, processedReplyTokens, submitted, pendingWrites, barrier,
                   store, snapshot, fallbackRan, running, queue, active, mainCalls,
                   mainFetches, replyFetches, handed, lastPass>>

\* "await getAllComments(db)" rejects ("req.onerror = (e) => reject(...)"): the
\* catch block ends the call after the harvest
ReadFails ==
    /\ pc = "reading"
    /\ isExtracting' = GuardAfterCatch
    /\ pc' = "failed"
    /\ returned' = CatchResult("getAll")
    /\ UNCHANGED <<retryVars, clientVars, auxVars>>
    /\ UNCHANGED <<npages, loopTo, replyCycles, pages, replies, mainFetch, batchNumber, totalFetched,
                   totalRepliesFetched, processedReplyTokens, submitted, pendingWrites, barrier,
                   store, snapshot, fallbackRan, running, queue, active, mainCalls,
                   mainFetches, replyFetches, handed, lastPass>>

\* extractComments not called yet
SessionFresh ==
    /\ pages = <<>>
    /\ replies = [r \in ReplyTokens |-> NoReply]
    /\ isExtracting = FALSE
    /\ pc = "idle"
    /\ mainFetch = NoFetch
    /\ batchNumber = 1
    /\ totalFetched = 0
    /\ totalRepliesFetched = 0
    /\ processedReplyTokens = {}
    /\ submitted = <<>>
    /\ pendingWrites = <<>>
    /\ barrier = 0
    /\ snapshot = {}
    /\ fallbackRan = FALSE
    /\ returned = [null |-> TRUE, comments |-> {}, raised |-> FALSE]
    /\ running = 0
    /\ queue = <<>>
    /\ active = {}
    /\ mainCalls = 0
    /\ mainFetches = 0
    /\ replyFetches = [r \in ReplyTokens |-> 0]
    /\ handed = {}
    /\ lastPass = <<>>

\* no fetchWithRetry call and no queue client of their own are under observation
RetryIdle ==
    /\ rtPc = "idle"
    /\ rtRetries = 0
    /\ rtBackoff = 0
    /\ rtOutcomes = <<>>
    /\ rtWaits = <<>>
    /\ rtResult = "none"

ClientIdle ==
    /\ qStatus = <<>>
    /\ idleState = "notcalled"
    /\ clientSync = FALSE
    /\ calledAt = -1
    /\ sameTurn = FALSE
    /\ syncAfter = 0

\* --------------------------------------------------------------- EntityStore
EntityKeys == 1..MaxEntityKeys

NoPayload == [kind |-> "none", val |-> "none"]

\* mutation.payload: absent, a payload wrapping a commentEntityPayload, or another one
Payloads == {NoPayload, [kind |-> "comment", val |-> "a"],
             [kind |-> "comment", val |-> "b"], [kind |-> "other", val |-> "a"]}

Mutations == [entityKey : EntityKeys, payload : Payloads]

RECURSIVE SeqsUpTo(_, _)
SeqsUpTo(S, n) ==
    IF n = 0 THEN {<<>>}
    ELSE LET shorter == SeqsUpTo(S, n - 1)
         IN  shorter \cup {Append(q, x) : q \in {r \in shorter : Len(r) = n - 1}, x \in S}

\* the mutation lists one response can carry
UpdateLists == SeqsUpTo(Mutations, MaxMutations)

EmptyMap == [k \in {} |-> NoPayload]

\* Map.prototype.set
MapSet(m, k, v) == [x \in DOMAIN m \cup {k} |-> IF x = k THEN v ELSE m[x]]

\* "if (payload.commentEntityPayload) store.set(key, payload.commentEntityPayload)
\*  else store.set(key, payload)"
Unwrap(p) == IF p.kind = "comment" THEN [kind |-> "entity", val |-> p.val] ELSE p

\* parseEntityStore(frameworkUpdates): the mutations in order into a new Map,
\* "if (mutation.payload)" skipping those without one
RECURSIVE ParseInto(_, _)
ParseInto(muts, m) ==
    IF muts = <<>> THEN m
    ELSE LET mu == Head(muts)
         IN  ParseInto(Tail(muts),
                       IF mu.payload # NoPayload
                       THEN MapSet(m, mu.entityKey, Unwrap(mu.payload))
                       ELSE m)

ParseEntityStore(muts) == ParseInto(muts, EmptyMap)

\* a variant that keeps the value a key already has
MergeIntoKeepFirst(es, new) ==
    [k \in DOMAIN es \cup DOMAIN new |-> IF k \in DOMAIN es THEN es[k] ELSE new[k]]

\* "newUpdates.forEach((v, k) => entityStore.set(k, v))"
MergeInto(es, new) ==
    [k \in DOMAIN es \cup DOMAIN new |-> IF k \in DOMAIN new THEN new[k] ELSE es[k]]

\* the values parseEntityStore can have put in a Map
StoredVals == {Unwrap(p) : p \in Payloads \ {NoPayload}}

EntityMaps == UNION {[S -> StoredVals] : S \in SUBSET EntityKeys}

\* a response carrying frameworkUpdates arrives (main or reply fetch alike)
MergeUpdate(muts) ==
    /\ Len(esUpdates) < MaxUpdates
    /\ entityStore' = MergeInto(entityStore, ParseEntityStore(muts))
    /\ esUpdates' = Append(esUpdates, muts)
    /\ UNCHANGED esInit
    /\ UNCHANGED <<sessionVars, queueVars, retryVars, clientVars, callVars, threadVars, moreVars>>

\* no entity store is under observation
EntityIdle ==
    /\ entityStore = EmptyMap
    /\ esInit = EmptyMap
    /\ esUpdates = <<>>

\* ---------------------------- resolveComment, processCommentThread, fetchReplies
\* a falsy id: '' or undefined
NoId == 0

\* the parentId property is not on the record
Absent == -1

\* viewModel.commentKey || viewModel.commentId, or cr.commentId (0: the node has none)
CommentIds == 0..MaxEntityKeys

\* a raw comment node: its identity and the text and author found inline on it;
\* via tells under which property the response carries it
RawNodes == [key : CommentIds, text : {"", "t"}, author : {"", "u"},
             via : {"viewModel", "renderer"}]

\* no node at that place
NoNode == [key |-> 0, text |-> "", author |-> "", via |-> "none"]

\* a commentThreadRenderer: its root node, one visible reply (in subThreads), one
\* nested commentThreadRenderer (given by its root) and a continuationItemRenderer
RawThreads == [root : RawNodes \cup {NoNode},
               reply : RawNodes \cup {NoNode},
               nested : {n \in RawNodes : n.via = "viewModel" /\ n.text = "t"
                                            /\ n.author = "u"} \cup {NoNode},
               more : BOOLEAN]

NullRecord == [null |-> TRUE, id |-> NoId, author |-> "", text |-> "",
               isReply |-> FALSE, parentId |-> Absent]

\* "a || b" on strings
OrElse(a, b) == IF a = "" THEN b ELSE a

\* properties.content.content and author.displayName of an entity payload
PayloadText(p) == IF p.kind = "entity" THEN p.val ELSE ""

PayloadAuthor(p) == IF p.kind = "entity" THEN p.val ELSE ""

\* a variant that reads the node first and the payload only for what the node lacks
ResolveCommentInlineFirst(vm, es) ==
    IF vm = NoNode THEN NullRecord
    ELSE LET id == vm.key
             hasPayload == id # NoId /\ id \in DOMAIN es
             text == OrElse(vm.text, IF hasPayload THEN PayloadText(es[id]) ELSE "")
             author == OrElse(OrElse(vm.author,
                                     IF hasPayload THEN PayloadAuthor(es[id]) ELSE ""),
                              "Unknown")
         IN  IF text = "" /\ author = "" /\ id = NoId THEN NullRecord
             ELSE [null |-> FALSE, id |-> id, author |-> author, text |-> text,
                   isReply |-> FALSE, parentId |-> Absent]

\* resolveComment(viewModel, entityStore): the payload found under the node's id
\* is the source, else the node itself; "|| 'Unknown'" for the author; the id
\* fallback reads commentId of a source that has none; "if (!text && !author && !id)
\* return null"
ResolveComment(vm, es) ==
    IF vm = NoNode THEN NullRecord
    ELSE LET id == vm.key
             hasPayload == id # NoId /\ id \in DOMAIN es
             text == IF hasPayload THEN PayloadText(es[id]) ELSE vm.text
             author == OrElse(IF hasPayload THEN PayloadAuthor(es[id]) ELSE vm.author,
                              "Unknown")
         IN  IF text = "" /\ author = "" /\ id = NoId THEN NullRecord
             ELSE [null |-> FALSE, id |-> id, author |-> author, text |-> text,
                   isReply |-> FALSE, parentId |-> Absent]

\* the record built in place from a commentRenderer (root, or reply in the merged loop)
LegacyRecord(cr) ==
    [null |-> FALSE, id |-> cr.key, author |-> OrElse(cr.author, "Unknown"),
     text |-> cr.text, isReply |-> FALSE, parentId |-> Absent]

\* "rootComment?.id"
RootIdOf(rootComment) == IF rootComment.null THEN NoId ELSE rootComment.id

\* processCommentThread, strategies 1 and 2 for the root
RootComment(th, es) ==
    IF th.root = NoNode THEN NullRecord
    ELSE IF th.root.via = "viewModel" THEN ResolveComment(th.root, es)
    ELSE LegacyRecord(th.root)

\* "r.isReply = true; r.parentId = ..."
AsReply(r, parentId) == [r EXCEPT !.isReply = TRUE, !.parentId = parentId]

\* a sequence without its null results ("if (r) results.push(r)")
NonNull(recs) == SelectSeq(recs, LAMBDA r : ~r.null)

\* processCommentThread(threadRenderer, entityStore, 0, replyTokenCollector):
\* the root, then the merged sub-thread list (visible reply, nested thread,
\* continuation item)
ProcessCommentThread(th, es) ==
    LET rootComment == RootComment(th, es)
        rootId == RootIdOf(rootComment)
        reply == IF th.reply = NoNode THEN NullRecord
                 ELSE IF th.reply.via = "renderer"
                      THEN AsReply(LegacyRecord(th.reply), rootId)
                      ELSE LET r == ResolveComment(th.reply, es)
                           IN  IF r.null THEN r ELSE AsReply(r, rootId)
        \* "t.isReply = true; if (rootComment?.id) t.parentId = rootComment.id"
        inner == ResolveComment(th.nested, es)
        nested == IF inner.null THEN inner
                  ELSE [inner EXCEPT !.isReply = TRUE,
                                     !.parentId = IF rootId # NoId THEN rootId ELSE @]
    IN  [records |-> NonNull(<<rootComment, reply, nested>>),
         descs |-> IF th.more THEN <<[parentId |-> rootId]>> ELSE <<>>]

\* fetchReplies(token, entityStore, parentId) on a response with one reply item
FetchReplies(item, es, parentId) ==
    LET r == ResolveComment(item, es)
    IN  IF r.null THEN <<>> ELSE <<AsReply(r, parentId)>>

\* saveCommentBatch: "if (!c.id) c.id = Math.random()..." then store.put(c)
EnsureIds(recs) ==
    {[recs[i] EXCEPT !.id = IF @ = NoId THEN MaxEntityKeys + i ELSE @] : i \in 1..Len(recs)}

\* a thread item of a main response is processed
ProcessThread(th) ==
    /\ rawThreads = <<>>
    /\ rawThreads' = <<th>>
    /\ LET out == ProcessCommentThread(th, entityStore)
       IN  /\ results' = out.records
           /\ replyTokenCollector' = out.descs
    /\ UNCHANGED saved
    /\ UNCHANGED <<sessionVars, queueVars, retryVars, clientVars, callVars, entityVars, moreVars>>

\* the reply task of a collected descriptor gets its response
ReplyTaskFetch(item) ==
    /\ replyTokenCollector # <<>>
    /\ results' = results \o FetchReplies(item, entityStore, Head(replyTokenCollector).parentId)
    /\ replyTokenCollector' = Tail(replyTokenCollector)
    /\ UNCHANGED <<rawThreads, saved>>
    /\ UNCHANGED <<sessionVars, queueVars, retryVars, clientVars, callVars, entityVars, moreVars>>

\* the records are written
SaveResults ==
    /\ rawThreads # <<>>
    /\ replyTokenCollector = <<>>
    /\ saved = {}
    /\ results # <<>>
    /\ saved' = EnsureIds(results)
    /\ UNCHANGED <<rawThreads, results, replyTokenCollector>>
    /\ UNCHANGED <<sessionVars, queueVars, retryVars, clientVars, callVars, entityVars, moreVars>>

\* no thread is under observation
ThreadIdle ==
    /\ rawThreads = <<>>
    /\ results = <<>>
    /\ replyTokenCollector = <<>>
    /\ saved = {}

\* extractComments was never called on this page
CallerIdle ==
    /\ sessionNo = 0
    /\ rejectedCalls = 0
    /\ clearedStale = FALSE

\* no chain of nested threads is under observation
DepthIdle ==
    /\ chain = -1
    /\ entryDepth = 0
    /\ level = -1
    /\ kept = {}

\* no result message has been posted
PageIdle == posted = <<>>

Videos == 1..MaxVideos

\* the service worker has just started
WorkerIdle ==
    /\ videoQueue = <<>>
    /\ isProcessing = FALSE
    /\ mainTabId = 0
    /\ storagePending = 0
    /\ timers = 0
    /\ opened = <<>>
    /\ unanswered = [v \in Videos |-> 0]
    /\ completes = <<>>
    /\ queued = {}
    /\ starts = 0
    /\ manualMsgs = 0

MoreIdle == DepthIdle /\ PageIdle /\ WorkerIdle

AuxIdle == CallerIdle /\ EntityIdle /\ ThreadIdle /\ MoreIdle

\* no harvest session is under observation
SessionIdle ==
    /\ npages = 1
    /\ loopTo = 0
    /\ replyCycles = FALSE
    /\ store = {}
    /\ SessionFresh

Init ==
    /\ npages \in 1..MaxPages
    /\ loopTo = 0
    /\ replyCycles = FALSE
    /\ store \in {{}, {StaleRec}}
    /\ SessionFresh
    /\ RetryIdle
    /\ ClientIdle
    /\ AuxIdle

Outcomes == {"ok", "fail", "malformed"}

ReplyOutcomes == {"ok", "fail"}

AnyReplyResponse == UNION {ReplyResponses(r) : r \in ReplyTokens}

Next ==
    \/ \E seed \in 0..1 : StartSession(seed)
    \/ \E o \in Outcomes, n \in 0..MaxRoots, ds \in DescSeqs :
          /\ o # "ok" => (n = 0 /\ ds = <<>>)
          /\ MainResponse(o, n, ds)
    \/ \E o \in ReplyOutcomes, resp \in AnyReplyResponse :
          /\ o # "ok" => resp = [seen |-> TRUE, nrecs |-> 0, more |-> <<>>]
          /\ InlineResponse(o, resp)
    \/ \E t \in active, o \in ReplyOutcomes, resp \in AnyReplyResponse :
          /\ o # "ok" => resp = [seen |-> TRUE, nrecs |-> 0, more |-> <<>>]
          /\ TaskResponse(t, o, resp)
    \/ \E i \in 1..Len(pendingWrites), o \in {"ok", "err"} : WriteSettle(i, o)
    \/ OnIdleResolve
    \/ BarrierResolve
    \/ \E ndom \in 0..MaxDomThreads : ReadComplete(ndom)

Spec == Init /\ [][Next]_vars

\* the session when whatever is in flight (a request, a transaction, a timer of
\* onIdle) comes back and the code waiting for it runs
SpecLive == Init /\ [][Next]_vars /\ WF_vars(Next)

\* the session on a page whose reply continuations can lead back to a token that
\* was fetched before, everything in flight coming back
InitCycle ==
    /\ npages = 1
    /\ loopTo = 0
    /\ replyCycles = TRUE
    /\ store = {}
    /\ SessionFresh
    /\ RetryIdle
    /\ ClientIdle
    /\ AuxIdle

SpecCycle == InitCycle /\ [][Next]_vars /\ WF_vars(Next)



\* ---------------------------------------------------- the session with storage faults
\* the session of Spec where opening or clearing the database and the final read
\* can fail as well
NextFaults ==
    \/ Next
    \/ \E e \in {"initDB", "clear"} : SetupFails(e)
    \/ ReadFails

SpecFaults == Init /\ [][NextFaults]_vars

\* ------------------------------------------------------- the walk on its own
\* The main walk over a chain of pages that may lead back into itself, with
\* responses that carry no comment thread: the loop of extractComments alone, up
\* to the safety ceiling.  (The responses are not recorded in `pages`.)
WalkResponse(outcome) ==
    /\ mainFetch.phase = "net"
    /\ Deliver(IF outcome = "ok"
               THEN [comments |-> {}, nextToken |-> NextTokenOf(mainFetch.tok),
                     replyTokens |-> <<>>]
               ELSE EmptyBatch, replyFetches)
    /\ UNCHANGED <<retryVars, clientVars, auxVars>>
    /\ UNCHANGED <<npages, loopTo, replyCycles, pages, replies, isExtracting, totalRepliesFetched, barrier,
                   store, snapshot, fallbackRan, returned>>

InitWalk ==
    /\ npages \in 1..MaxPages
    /\ loopTo \in 0..npages
    /\ replyCycles = FALSE
    /\ store = {}
    /\ SessionFresh
    /\ RetryIdle
    /\ ClientIdle
    /\ AuxIdle

WalkNext ==
    \/ \E seed \in 0..1 : StartSession(seed)
    \/ \E o \in Outcomes : WalkResponse(o)
    \/ OnIdleResolve
    \/ BarrierResolve
    \/ \E ndom \in 0..MaxDomThreads : ReadComplete(ndom)

SpecWalk == InitWalk /\ [][WalkNext]_vars




\* ------------------------------------------- repeated and overlapping calls
\* a variant without the guard
RejectsNever(flag) == FALSE

\* "if (isExtracting) { console.warn(...); return null; }"
Rejects(flag) == flag

\* extractComments(videoId) is called at some moment of the page's life.  Turned
\* away by the guard it returns null at once.  Accepted, it runs as StartSession
\* does: the locals of the new call (replyQueue, pendingWrites, processedReplyTokens,
\* the counters) are new objects and the server is read anew.
ExtractCall(seed) ==
    /\ IF Rejects(isExtracting)
       THEN /\ rejectedCalls < MaxRejected
            /\ rejectedCalls' = rejectedCalls + 1
            /\ UNCHANGED <<sessionNo, clearedStale, sessionVars, queueVars>>
       ELSE /\ sessionNo < MaxSessions
            /\ sessionNo' = sessionNo + 1
            /\ clearedStale' = (store # {})
            /\ isExtracting' = TRUE
            /\ store' = ClearCommentStore(store)
            /\ mainCalls' = 1
            /\ mainFetches' = IF seed = 0 THEN 0 ELSE 1
            /\ mainFetch' = IF seed = 0 THEN NoFetch ELSE [phase |-> "net", tok |-> seed]
            /\ batchNumber' = IF seed = 0 THEN 2 ELSE 1
            /\ pc' = IF seed = 0 THEN "onIdle" ELSE "fetching"
            /\ pages' = <<>>
            /\ replies' = [r \in ReplyTokens |-> NoReply]
            /\ totalFetched' = 0
            /\ totalRepliesFetched' = 0
            /\ processedReplyTokens' = {}
            /\ submitted' = <<>>
            /\ pendingWrites' = <<>>
            /\ barrier' = 0
            /\ snapshot' = {}
            /\ fallbackRan' = FALSE
            /\ returned' = [null |-> TRUE, comments |-> {}, raised |-> FALSE]
            /\ running' = 0
            /\ queue' = <<>>
            /\ active' = {}
            /\ replyFetches' = [r \in ReplyTokens |-> 0]
            /\ handed' = {}
            /\ lastPass' = <<>>
            /\ UNCHANGED <<npages, loopTo, replyCycles, rejectedCalls>>
    /\ UNCHANGED <<retryVars, clientVars, entityVars, threadVars, moreVars>>

\* a page whose comment chain has one page, visited by several calls
InitCalls ==
    /\ npages = 1
    /\ loopTo = 0
    /\ replyCycles = FALSE
    /\ store \in {{}, {StaleRec}}
    /\ SessionFresh
    /\ RetryIdle
    /\ ClientIdle
    /\ AuxIdle

NextCalls ==
    \/ \E seed \in 0..1 : ExtractCall(seed)
    \/ \E o \in Outcomes, n \in 0..MaxRoots, ds \in DescSeqs :
          /\ o # "ok" => (n = 0 /\ ds = <<>>)
          /\ MainResponse(o, n, ds)
    \/ \E o \in ReplyOutcomes, resp \in AnyReplyResponse :
          /\ o # "ok" => resp = [seen |-> TRUE, nrecs |-> 0, more |-> <<>>]
          /\ InlineResponse(o, resp)
    \/ \E t \in active, o \in ReplyOutcomes, resp \in AnyReplyResponse :
          /\ o # "ok" => resp = [seen |-> TRUE, nrecs |-> 0, more |-> <<>>]
          /\ TaskResponse(t, o, resp)
    \/ \E i \in 1..Len(pendingWrites), o \in {"ok", "err"} : WriteSettle(i, o)
    \/ OnIdleResolve
    \/ BarrierResolve
    \/ \E ndom \in 0..MaxDomThreads : ReadComplete(ndom)

SpecCalls == InitCalls /\ [][NextCalls]_vars

\* repeated calls where opening the database (of the first call) and the final read
\* (of any call) can fail
NextCallsFaults ==
    \/ NextCalls
    \/ \E e \in {"initDB", "clear"} : SetupFails(e)
    \/ ReadFails

SpecCallsFaults == InitCalls /\ [][NextCallsFaults]_vars

\* ------------------------------------------------------------------ the message listener
\* window.addEventListener('message', async (event) => ...): a YCA_EXTRACT_DATA request
\* runs the listener up to "const comments = await extractComments(videoId)"; whatever
\* the call returns, the listener goes on to post YCA_DATA_EXTRACTED.

\* the extractComments calls that have returned to their listener
ReturnedCalls == rejectedCalls + sessionNo - (IF isExtracting THEN 1 ELSE 0)

\* a listener whose await has resolved and whose postMessage has not run yet
PostPending == Len(posted) < ReturnedCalls

\* the listener's continuation after the await: "window.postMessage({source:
\* 'YCA_PAGE_SCRIPT', type: 'YCA_DATA_EXTRACTED', data: {videoId, ..., comments, ...}})".
\* A call turned away by the guard hands null to its listener.
PostResult ==
    /\ PostPending
    /\ LET rejected == Cardinality({i \in DOMAIN posted : posted[i].rejected}) < rejectedCalls
       IN  posted' = Append(posted, [null |-> IF rejected THEN TRUE ELSE returned.null,
                                     rejected |-> rejected,
                                     inProgress |-> isExtracting])
    /\ UNCHANGED <<sessionVars, queueVars, retryVars, clientVars, callVars, entityVars,
                   threadVars, depthVars, workerVars>>

\* the continuation is a microtask: it runs before any other event of the page
NextPage ==
    \/ PostResult
    \/ ~PostPending /\ NextCalls

SpecPage == InitCalls /\ [][NextPage]_vars



\* ------------------------------------------------------------ fetchWithRetry
\* async function fetchWithRetry(url, options, retries = 5, backoff = 1000)
DefaultRetries == 5
DefaultBackoff == 1000

\* what one "await fetch(url, options)" can do: resolve with response.ok, resolve
\* with a non-success status (the try block then throws), or reject
AttemptOutcomes == {"ok", "status", "neterr"}

\* a variant that rethrows the last error once the retries are used up
OnCatchRethrow(retries) == IF retries > 0 THEN "retry" ELSE "rethrow"

\* catch (err): "if (retries > 0) { wait; return fetchWithRetry(...) } else
\* { return { ok: false, status: 0, ... } }"
OnCatch(retries) == IF retries > 0 THEN "retry" ELSE "sentinel"

\* a variant with linear instead of exponential backoff
NextBackoffLinear(b) == b + DefaultBackoff

\* "fetchWithRetry(url, options, retries - 1, backoff * 2)"
NextBackoff(b) == b * 2

\* response.ok of what the call resolved with
ResultOk(res) == res = "response"

RetryInit ==
    /\ rtPc = "fetch"
    /\ rtRetries = DefaultRetries
    /\ rtBackoff = DefaultBackoff
    /\ rtOutcomes = <<>>
    /\ rtWaits = <<>>
    /\ rtResult = "none"

\* one pass of the try block and, on failure, of the catch block up to its await
RetryAttempt(o) ==
    /\ rtPc = "fetch"
    /\ rtOutcomes' = Append(rtOutcomes, o)
    /\ IF o = "ok"
       THEN /\ rtResult' = "response"
            /\ rtPc' = "done"
            /\ UNCHANGED rtWaits
       ELSE LET c == OnCatch(rtRetries)
            IN  IF c = "retry"
                THEN /\ rtWaits' = Append(rtWaits, rtBackoff)
                     /\ rtPc' = "wait"
                     /\ UNCHANGED rtResult
                ELSE /\ rtResult' = IF c = "sentinel" THEN "sentinel" ELSE "raised"
                     /\ rtPc' = "done"
                     /\ UNCHANGED rtWaits
    /\ UNCHANGED <<rtRetries, rtBackoff>>
    /\ UNCHANGED <<sessionVars, queueVars, clientVars, auxVars>>

\* the setTimeout fires and the recursive call starts
RetryTimer ==
    /\ rtPc = "wait"
    /\ rtRetries' = rtRetries - 1
    /\ rtBackoff' = NextBackoff(rtBackoff)
    /\ rtPc' = "fetch"
    /\ UNCHANGED <<rtOutcomes, rtWaits, rtResult>>
    /\ UNCHANGED <<sessionVars, queueVars, clientVars, auxVars>>

RetryNext ==
    \/ \E o \in AttemptOutcomes : RetryAttempt(o)
    \/ RetryTimer

InitRetry == SessionIdle /\ RetryInit /\ ClientIdle /\ AuxIdle

\* every fetch settles and every timer fires
SpecRetry == InitRetry /\ [][RetryNext]_vars /\ WF_vars(RetryNext)


\* ---------------------------------------- SimpleQueue under a generic client
MaxTasks == 6          \* tasks the client ever adds

Tasks == 1..MaxTasks

Added == {t \in Tasks : qStatus[t] # "new"}

Settled == {t \in Tasks : qStatus[t] \in {"resolved", "rejected"}}

\* process() with abstract task bodies: "this.running++; shift(); await fn()" --
\* the body is entered and the awaiting process() suspends.  q = [running, queue, status]
QueueProcess(q) ==
    IF ProcessReturnsEarly(q.running, q.queue, ReplyConcurrency) THEN q
    ELSE [running |-> q.running + 1,
          queue |-> Tail(q.queue),
          status |-> [q.status EXCEPT ![Head(q.queue)] = "running"]]

ClientInit ==
    /\ qStatus = [t \in Tasks |-> "new"]
    /\ idleState = "notcalled"
    /\ clientSync = TRUE
    /\ calledAt = -1
    /\ sameTurn = FALSE
    /\ syncAfter = 0

\* add(fn): "this.queue.push({ fn, resolve, reject }); this.process()"
ClientAdd ==
    /\ clientSync
    /\ Added # Tasks
    /\ LET t == Cardinality(Added) + 1
           q == QueueProcess([running |-> running, queue |-> Append(queue, t),
                              status |-> [qStatus EXCEPT ![t] = "queued"]])
       IN  /\ running' = q.running
           /\ queue' = q.queue
           /\ qStatus' = q.status
    /\ syncAfter' = IF sameTurn THEN syncAfter + 1 ELSE syncAfter
    /\ UNCHANGED <<idleState, clientSync, calledAt, sameTurn>>
    /\ UNCHANGED <<sessionVars, retryVars, auxVars>>

\* onIdle() is called: the loop condition is evaluated at once
ClientOnIdle ==
    /\ clientSync
    /\ idleState = "notcalled"
    /\ idleState' = IF OnIdleWaits(running, queue) THEN "waiting" ELSE "resolved"
    /\ calledAt' = Cardinality(Added)
    /\ sameTurn' = TRUE
    /\ UNCHANGED <<running, queue, qStatus, clientSync, syncAfter>>
    /\ UNCHANGED <<sessionVars, retryVars, auxVars>>

\* the client's synchronous code ends (it awaits or returns to the event loop)
ClientYield ==
    /\ clientSync
    /\ clientSync' = FALSE
    /\ sameTurn' = FALSE
    /\ UNCHANGED <<running, queue, qStatus, idleState, calledAt, syncAfter>>
    /\ UNCHANGED <<sessionVars, retryVars, auxVars>>

\* the client runs again in a later turn
ClientResume ==
    /\ ~clientSync
    /\ Added # Tasks
    /\ clientSync' = TRUE
    /\ UNCHANGED <<running, queue, qStatus, idleState, calledAt, sameTurn, syncAfter>>
    /\ UNCHANGED <<sessionVars, retryVars, auxVars>>

\* a variant whose finally block does not call process()
OnFinallyNoProcess(q) == [q EXCEPT !.running = @ - 1]

\* "finally { this.running--; this.process(); }"
OnFinally(q) == QueueProcess([q EXCEPT !.running = @ - 1])

\* "await fn()" of a started task settles: resolve(result) or reject(error), then
\* "finally { this.running--; this.process() }"
TaskSettle(t, how) ==
    /\ ~clientSync
    /\ qStatus[t] = "running"
    /\ LET q == OnFinally([running |-> running, queue |-> queue,
                           status |-> [qStatus EXCEPT ![t] = how]])
       IN  /\ running' = q.running
           /\ queue' = q.queue
           /\ qStatus' = q.status
    /\ UNCHANGED <<idleState, clientSync, calledAt, sameTurn, syncAfter>>
    /\ UNCHANGED <<sessionVars, retryVars, auxVars>>

\* the 100 ms timer of onIdle() fires and the loop condition is evaluated again
OnIdleTimer ==
    /\ ~clientSync
    /\ idleState = "waiting"
    /\ ~OnIdleWaits(running, queue)
    /\ idleState' = "resolved"
    /\ UNCHANGED <<running, queue, qStatus, clientSync, calledAt, sameTurn, syncAfter>>
    /\ UNCHANGED <<sessionVars, retryVars, auxVars>>

QueueNext ==
    \/ ClientAdd
    \/ ClientOnIdle
    \/ ClientYield
    \/ ClientResume
    \/ \E t \in Tasks, how \in {"resolved", "rejected"} : TaskSettle(t, how)
    \/ OnIdleTimer

InitQueue == SessionIdle /\ RetryIdle /\ ClientInit /\ AuxIdle

SpecQueue == InitQueue /\ [][QueueNext]_vars

\* the queue when the client's synchronous code always ends and every started task
\* settles: a settlement that is ready again and again is delivered in the end
\* (the event loop serves its callbacks in order)
QueueFairness ==
    /\ WF_vars(ClientYield)
    /\ \A t \in Tasks : SF_vars(\E how \in {"resolved", "rejected"} : TaskSettle(t, how))

SpecQueueFair == InitQueue /\ [][QueueNext]_vars /\ QueueFairness



\* ------------------------------------------- the EntityStore under merges
\* "let entityStore = new Map(); if (window.ytInitialData?.frameworkUpdates)
\*  entityStore = parseEntityStore(...)"
EntityInit ==
    /\ esInit \in EntityMaps
    /\ entityStore = esInit
    /\ esUpdates = <<>>

EntityNext == \E muts \in UpdateLists : MergeUpdate(muts)

InitEntity ==
    SessionIdle /\ RetryIdle /\ ClientIdle /\ CallerIdle /\ EntityInit /\ ThreadIdle /\ MoreIdle

SpecEntity == InitEntity /\ [][EntityNext]_vars


\* -------------------------------------- one thread from response to store
\* the entity store holds a payload for comment 1 or not
ThreadEntityInit ==
    /\ esInit \in {m \in EntityMaps : DOMAIN m \subseteq {1}}
    /\ entityStore = esInit
    /\ esUpdates = <<>>

\* the reply items a reply response can carry
ReplyItems == {n \in RawNodes : n.key # 1 /\ n.author = "u"}

ThreadNext ==
    \/ rawThreads = <<>> /\ \E th \in RawThreads : ProcessThread(th)
    \/ replyTokenCollector # <<>> /\ \E item \in ReplyItems : ReplyTaskFetch(item)
    \/ SaveResults

InitThread ==
    /\ SessionIdle /\ RetryIdle /\ ClientIdle /\ CallerIdle /\ ThreadEntityInit
    /\ ThreadIdle /\ MoreIdle

SpecThread == InitThread /\ [][ThreadNext]_vars

\* ------------------------------------------------- nested thread descent
\* a variant without the cap
PastDepthCapNever(depth) == FALSE

\* "if (depth > 100) { ...; return []; }"
PastDepthCap(depth) == depth > DepthCap

\* processCommentThread(thread, entityStore, 0 or 1) is called on a thread that has n
\* further commentThreadRenderers nested below it, one in the subThreads of the other
StartChain(n, entry) ==
    /\ chain = -1
    /\ chain' = n
    /\ entryDepth' = entry
    /\ level' = 0
    /\ kept' = {}
    /\ UNCHANGED <<sessionVars, queueVars, retryVars, clientVars, callVars, entityVars,
                   threadVars, pageVars, workerVars>>

\* the call for the thread at `level` runs: past the cap it returns [] and the
\* callers push nothing for it; else the root of the level is pushed and
\* "processCommentThread(sub.commentThreadRenderer, entityStore, depth + 1)" is
\* called for the thread nested in it, if any; "results.push(...threads)" on return
EnterLevel ==
    /\ chain # -1
    /\ level # -1
    /\ IF PastDepthCap(entryDepth + level)
       THEN level' = -1 /\ kept' = kept
       ELSE /\ kept' = kept \cup {level}
            /\ level' = IF level < chain THEN level + 1 ELSE -1
    /\ UNCHANGED <<chain, entryDepth>>
    /\ UNCHANGED <<sessionVars, queueVars, retryVars, clientVars, callVars, entityVars,
                   threadVars, pageVars, workerVars>>

\* chains come from a main response (depth 0) or from a reply response
\* ("processCommentThread(item.commentThreadRenderer, entityStore, 1)")
DepthNext ==
    \/ \E n \in 0..MaxNesting, entry \in 0..1 : StartChain(n, entry)
    \/ EnterLevel

InitDepth == SessionIdle /\ RetryIdle /\ ClientIdle /\ AuxIdle

SpecDepth == InitDepth /\ [][DepthNext]_vars

\* ------------------------------------------------------------------ the background worker
\* chrome.runtime.onMessage listener and processNextVideo of the service worker.

\* the video lists a download request can carry
VideoLists ==
    {s \in UNION {[1..n -> Videos] : n \in 0..MaxVideos} :
        \A i, j \in DOMAIN s : i # j => s[i] # s[j]}

\* function processNextVideo(), called with isProcessing = proc
ProcessNextVideo(proc) ==
    IF videoQueue = <<>>
    THEN /\ isProcessing' = FALSE
         /\ IF mainTabId # 0
            THEN /\ completes' = Append(completes,
                        \A v \in queued : /\ \E i \in DOMAIN opened : opened[i].video = v
                                          /\ unanswered[v] = 0)
                 /\ mainTabId' = 0
            ELSE UNCHANGED <<completes, mainTabId>>
         /\ UNCHANGED <<videoQueue, opened, unanswered>>
    ELSE LET video == Head(videoQueue)
             pending == \E v \in Videos : unanswered[v] > 0
         IN  /\ videoQueue' = Tail(videoQueue)
             /\ opened' = Append(opened, [video |-> video, pending |-> pending])
             /\ unanswered' = [unanswered EXCEPT ![video] = @ + 1]
             /\ isProcessing' = proc
             /\ UNCHANGED <<completes, mainTabId>>

\* "if (message.type === 'YCA_START_DOWNLOAD')": the queue is replaced and the options
\* are written to storage; the callback starts the processing
StartDownload(videos) ==
    /\ starts < MaxStarts
    /\ starts' = starts + 1
    /\ mainTabId' = 1
    /\ videoQueue' = videos
    /\ queued' = queued \cup {videos[i] : i \in DOMAIN videos}
    /\ storagePending' = storagePending + 1
    /\ UNCHANGED <<isProcessing, timers, opened, unanswered, completes, manualMsgs>>
    /\ UNCHANGED <<sessionVars, queueVars, retryVars, clientVars, callVars, entityVars,
                   threadVars, depthVars, pageVars>>

\* the chrome.storage.local.set callback: "isProcessing = true; processNextVideo()"
StorageSaved ==
    /\ storagePending > 0
    /\ storagePending' = storagePending - 1
    /\ ProcessNextVideo(TRUE)
    /\ UNCHANGED <<timers, queued, starts, manualMsgs>>
    /\ UNCHANGED <<sessionVars, queueVars, retryVars, clientVars, callVars, entityVars,
                   threadVars, depthVars, pageVars>>

\* "if (message.type === 'YCA_VIDEO_DATA_READY')": the data of video v arrives, from a
\* tab the worker created (batch) or from a video page the user opened by hand; the
\* data is saved and processNextVideo is scheduled
VideoDataReady(v, batch) ==
    /\ timers < MaxTimers
    /\ IF batch
       THEN /\ unanswered[v] > 0
            /\ unanswered' = [unanswered EXCEPT ![v] = @ - 1]
            /\ UNCHANGED manualMsgs
       ELSE /\ manualMsgs < MaxManual
            /\ manualMsgs' = manualMsgs + 1
            /\ UNCHANGED unanswered
    /\ timers' = timers + 1
    /\ UNCHANGED <<videoQueue, isProcessing, mainTabId, storagePending, opened, completes,
                   queued, starts>>
    /\ UNCHANGED <<sessionVars, queueVars, retryVars, clientVars, callVars, entityVars,
                   threadVars, depthVars, pageVars>>

\* the timer set by "setTimeout(processNextVideo, 1000)" fires
TimerFires ==
    /\ timers > 0
    /\ timers' = timers - 1
    /\ ProcessNextVideo(isProcessing)
    /\ UNCHANGED <<storagePending, queued, starts, manualMsgs>>
    /\ UNCHANGED <<sessionVars, queueVars, retryVars, clientVars, callVars, entityVars,
                   threadVars, depthVars, pageVars>>

WorkerNext ==
    \/ \E videos \in VideoLists : StartDownload(videos)
    \/ StorageSaved
    \/ \E v \in Videos, batch \in BOOLEAN : VideoDataReady(v, batch)
    \/ TimerFires

InitWorker == SessionIdle /\ RetryIdle /\ ClientIdle /\ AuxIdle

SpecWorker == InitWorker /\ [][WorkerNext]_vars



\* ==================================================================== claims

LeftLoop == pc \in {"onIdle", "barrier", "reading", "done"}

AllMainOk == \A i \in 1..Len(pages) : pages[i].outcome = "ok"

SeedFound == mainFetches >= 1

NoWriteFailed == \A i \in 1..Len(pendingWrites) : pendingWrites[i].status # "err"

RECURSIVE TotalReplyFetchesUpTo(_)
TotalReplyFetchesUpTo(r) == IF r = 0 THEN 0 ELSE replyFetches[r] + TotalReplyFetchesUpTo(r - 1)

TotalReplyFetches == TotalReplyFetchesUpTo(MaxReplyTokens)

\* C1 (as claimed): within one session every reply continuation token is requested
\* at most once, counting the requests of queued reply tasks, the requests made
\* inline while a main batch is processed and the requests of a task's sub-walk.
C1_ReplyTokenFetchedAtMostOnce == \A r \in ReplyTokens : replyFetches[r] <= 1

\* C2: on a chain of N pages whose fetches all succeed the walker calls
\* fetchCommentsViaContinuation exactly N times and has then left the loop with no
\* main fetch in flight; it never makes an (N+1)-th call.
C2_WalkerFetchesExactlyN ==
    /\ mainCalls <= npages
    /\ (LeftLoop /\ SeedFound /\ AllMainOk) =>
          /\ mainCalls = npages
          /\ mainFetches = npages
          /\ Len(pages) = npages
          /\ mainFetch = NoFetch

C2_Witness ==
    /\ LeftLoop /\ AllMainOk
    /\ npages = MaxPages
    /\ mainCalls = MaxPages
    /\ Len(pages) = MaxPages

\* C4: the write barrier is passed only when every handle collected in
\* pendingWrites has settled, by success or by failure, in whatever order the
\* writes end; it was called with all of them.
C4_WriteBarrier ==
    pc \in {"reading", "done"} =>
        /\ barrier = Len(pendingWrites)
        /\ \A i \in 1..Len(pendingWrites) : pendingWrites[i].status \in {"ok", "err"}

C4_Witness ==
    /\ pc = "reading"
    /\ Len(pendingWrites) >= 2
    /\ \E i, j \in 1..Len(pendingWrites) :
          pendingWrites[i].status = "ok" /\ pendingWrites[j].status = "err"

\* C5: the emergency DOM scrape runs if and only if the list read back from the
\* store after both barriers is empty (and it never runs before that read).
C5_FallbackIffEmptySnapshot ==
    /\ pc = "done" => (fallbackRan <=> Cardinality(snapshot) = 0)
    /\ pc # "done" => ~fallbackRan

C5_Witness ==
    /\ pc = "done"
    /\ fallbackRan
    /\ Cardinality(snapshot) = 0
    /\ ~returned.null

\* C6 (as claimed): once a main batch or a reply task has handed a non-empty record
\* list to saveCommentBatch, the emergency DOM scrape is never run in the session.
C6_NoFallbackAfterHarvest == handed # {} => ~fallbackRan

\* C7 (as claimed): T0 yields 2 roots, next token T1 and one reply descriptor R1;
\* T1 yields nothing and no next token; R1 yields 1 reply and no further token.  The
\* session then ends with exactly 3 records read back (2 roots, 1 reply), 2 main
\* requests and 1 reply request, whatever the interleaving (no write failing).
C7_Scenario ==
    /\ npages = 2
    /\ Len(pages) = 2
    /\ pages[1].outcome = "ok" /\ pages[1].nroots = 2
    /\ Len(pages[1].descs) = 1 /\ pages[1].descs[1].tok = 1
    /\ pages[2] = [outcome |-> "ok", nroots |-> 0, descs |-> <<>>]
    /\ replies[1] = [seen |-> TRUE, nrecs |-> 1, more |-> <<>>]

C7_EndToEnd ==
    (pc = "done" /\ C7_Scenario /\ NoWriteFailed) =>
        /\ Cardinality(snapshot) = 3
        /\ Cardinality({c \in snapshot : ~c.isReply}) = 2
        /\ Cardinality({c \in snapshot : c.isReply}) = 1
        /\ mainFetches = 2
        /\ TotalReplyFetches = 1

\* C8: the waits between consecutive attempts of one fetchWithRetry call start at
\* 1000 ms and double each time; a call that fails on attempts 1 to 3 and succeeds
\* on attempt 4 returns the successful response after waiting 1000, 2000, 4000 ms.
C8_BackoffDoubles ==
    /\ \A i \in 1..Len(rtWaits) : rtWaits[i] = DefaultBackoff * 2 ^ (i - 1)
    /\ \A i \in 1..(Len(rtWaits) - 1) : rtWaits[i] < rtWaits[i + 1]
    /\ (rtPc = "done" /\ Len(rtOutcomes) = 4 /\ rtOutcomes[4] = "ok") =>
          /\ ResultOk(rtResult)
          /\ rtWaits = <<1000, 2000, 4000>>

C8_Witness ==
    /\ rtPc = "done"
    /\ rtOutcomes = <<"status", "neterr", "status", "ok">>
    /\ rtResult = "response"

\* C9 (as claimed): a fetchWithRetry call with default arguments makes at most 5
\* fetch attempts before it gives up.
C9_AtMostFiveAttempts == Len(rtOutcomes) <= 5

\* C10: fetchWithRetry never raises and always terminates: it resolves with the
\* successful response of its last attempt, or, after a failure of every one of its
\* attempts (non-success status and network error alike), with the ok = false
\* sentinel.
C10_Safe ==
    /\ rtResult # "raised"
    /\ rtPc = "done" =>
          /\ rtResult \in {"response", "sentinel"}
          /\ rtResult = "response" =>
                /\ ResultOk(rtResult)
                /\ rtOutcomes[Len(rtOutcomes)] = "ok"
          /\ rtResult = "sentinel" =>
                /\ ~ResultOk(rtResult)
                /\ Len(rtOutcomes) = DefaultRetries + 1
                /\ \A i \in 1..Len(rtOutcomes) : rtOutcomes[i] \in {"status", "neterr"}
    /\ rtPc # "done" =>
          /\ rtResult = "none"
          /\ \A i \in 1..Len(rtOutcomes) : rtOutcomes[i] \in {"status", "neterr"}

C10_NeverRaises == []C10_Safe /\ <>(rtPc = "done")

C10_Witness ==
    /\ rtPc = "done"
    /\ rtResult = "sentinel"
    /\ \E i, j \in 1..Len(rtOutcomes) :
          rtOutcomes[i] = "status" /\ rtOutcomes[j] = "neterr"

\* C3: onIdle() resolves only in a state with running = 0 and an empty queue, the
\* condition being evaluated each time it wakes: every task added up to then, also
\* one added after the call before the caller yielded, has settled.
C3_OnIdleOnlyWhenAllSettled ==
    [][(idleState # "resolved" /\ idleState' = "resolved") =>
          (running' = 0 /\ queue' = <<>> /\ Added' = Settled')]_vars

C3_Witness ==
    /\ idleState = "resolved"
    /\ calledAt = 5
    /\ syncAfter = 1
    /\ Settled = Tasks

\* C11: main pages are requested in strict pagination order: a main request is in
\* flight exactly when one more request was sent than responses were received (so
\* never two at once), and the request in flight is the one for the page after the
\* last page received.
C11_StrictPaginationOrder ==
    /\ mainFetches - Len(pages) = (IF mainFetch.phase = "net" THEN 1 ELSE 0)
    /\ mainFetch.phase = "net" => mainFetch.tok = Len(pages) + 1

C11_Witness ==
    /\ mainFetch.phase = "net"
    /\ mainFetches = 2
    /\ Len(pages) = 1
    /\ running > 0

\* C12: in every state of a SimpleQueue 0 <= running <= concurrency, and running is
\* the number of tasks started and not yet settled, whatever the interleaving of
\* add() calls and of task completions by success or by throw.
C12_RunningBounded ==
    /\ 0 <= running
    /\ running <= ReplyConcurrency
    /\ running = Cardinality({t \in Tasks : qStatus[t] = "running"})

C12_Witness ==
    /\ running = ReplyConcurrency
    /\ Len(queue) >= 1
    /\ \E t \in Tasks : qStatus[t] = "rejected"

\* C13: a call of extractComments made while a session is in progress returns null
\* at the guard and changes nothing of the running session: the store is not
\* cleared, no fetch is issued, no reply task is enqueued, isExtracting stays set, and
\* no new session is begun.
C13_RejectedCallChangesNothing ==
    [][(isExtracting /\ callVars' # callVars) =>
          /\ rejectedCalls' = rejectedCalls + 1
          /\ sessionNo' = sessionNo
          /\ isExtracting'
          /\ UNCHANGED <<sessionVars, queueVars>>]_vars

C13_Witness ==
    /\ rejectedCalls = 1
    /\ sessionNo = 1
    /\ isExtracting
    /\ pc = "onIdle"
    /\ store # {}
    /\ running > 0

\* C14: every session clears the comment store before it writes, so from its start
\* on the store, and at its end the snapshot read back, hold only records this
\* session handed to saveCommentBatch, whatever earlier sessions left behind.
C14_NoStaleRecords ==
    pc # "idle" =>
        /\ store \subseteq handed
        /\ snapshot \subseteq handed

C14_Witness ==
    /\ sessionNo = 2
    /\ clearedStale
    /\ pc = "done"
    /\ snapshot # {}

\* update u carries a value for key k
Carries(u, k) == \E i \in 1..Len(u) : u[i].entityKey = k /\ u[i].payload # NoPayload

\* the value update u leaves for key k: that of its last mutation of k with a payload
ValueIn(u, k) ==
    LET last == CHOOSE i \in 1..Len(u) :
                    /\ u[i].entityKey = k /\ u[i].payload # NoPayload
                    /\ \A j \in (i + 1)..Len(u) :
                          ~(u[j].entityKey = k /\ u[j].payload # NoPayload)
    IN  IF u[last].payload.kind = "comment"
        THEN [kind |-> "entity", val |-> u[last].payload.val]
        ELSE u[last].payload

\* C15: entity merge is last-applied-wins per key and never deletes: after any
\* sequence of merged updates a key holds the value of the latest update that
\* carries it, a key carried by no update is as it was in the initial store, and
\* the key set has only grown.
C15_LastAppliedWins ==
    /\ DOMAIN esInit \subseteq DOMAIN entityStore
    /\ \A k \in EntityKeys :
          LET carriers == {i \in 1..Len(esUpdates) : Carries(esUpdates[i], k)}
          IN  IF carriers # {}
              THEN LET latest == CHOOSE i \in carriers : \A j \in carriers : j <= i
                   IN  /\ k \in DOMAIN entityStore
                       /\ entityStore[k] = ValueIn(esUpdates[latest], k)
              ELSE /\ k \in DOMAIN entityStore <=> k \in DOMAIN esInit
                   /\ k \in DOMAIN esInit => entityStore[k] = esInit[k]

C15_Witness ==
    /\ Len(esUpdates) = 2
    /\ Carries(esUpdates[1], 1) /\ Carries(esUpdates[2], 1)
    /\ ValueIn(esUpdates[1], 1) # ValueIn(esUpdates[2], 1)
    /\ entityStore[1] = ValueIn(esUpdates[2], 1)
    /\ 2 \in DOMAIN esInit
    /\ ~Carries(esUpdates[1], 2) /\ ~Carries(esUpdates[2], 2)

\* C16: the final read is issued only after both barriers -- while it is pending or
\* done no reply task is running or queued and every write handle has settled --
\* and once the walker has left the fetch loop it calls no further main fetch and
\* gives no further task to the reply queue.
C16_Drained ==
    pc \in {"reading", "done"} =>
        /\ running = 0
        /\ Len(queue) = 0
        /\ active = {}
        /\ \A i \in 1..Len(pendingWrites) : pendingWrites[i].status # "inflight"

C16_ReadAfterBothBarriers ==
    /\ []C16_Drained
    /\ [][LeftLoop => /\ LeftLoop'
                      /\ mainCalls' = mainCalls
                      /\ mainFetches' = mainFetches
                      /\ submitted' = submitted]_vars

C16_Witness ==
    /\ pc = "reading"
    /\ Len(submitted) >= 1
    /\ totalRepliesFetched >= 1
    /\ totalFetched >= 1
    /\ Len(pendingWrites) >= 2

\* C17: no two tasks given to the reply queue in one session have the same dedup
\* key -- a descriptor whose key is already in processedReplyTokens is dropped -- the
\* keys of the tasks given are exactly processedReplyTokens, and that set only grows.
C17_KeysDistinct ==
    /\ \A i, j \in 1..Len(submitted) : i # j => submitted[i] # submitted[j]
    /\ {submitted[i] : i \in 1..Len(submitted)} = processedReplyTokens

C17_NoTwoTasksShareKey ==
    /\ []C17_KeysDistinct
    /\ [][processedReplyTokens \subseteq processedReplyTokens']_vars

C17_Witness ==
    /\ Len(pages) = 2
    /\ Len(pages[1].descs) = 1 /\ Len(pages[2].descs) = 1
    /\ DedupKey(pages[1].descs[1]) = DedupKey(pages[2].descs[1])
    /\ LeftLoop
    /\ Len(submitted) = 1

\* the parentId of a record is set to a non-empty value
ParentIdSet(r) == r.parentId # Absent /\ r.parentId # NoId

\* C18 (as claimed): every record produced for a thread -- root, visible reply,
\* nested sub-thread, reply fetched through a reply task -- and every row handed
\* to the store has parentId set if and only if isReply is true.
C18_ParentIdIffReply ==
    /\ \A i \in 1..Len(results) : ParentIdSet(results[i]) <=> results[i].isReply
    /\ \A r \in saved : ParentIdSet(r) <=> r.isReply

\* nothing of node n can be determined: no identity, no author, no text
Undetermined(n) == n # NoNode /\ n.key = NoId /\ n.text = "" /\ n.author = ""

\* C19 (as claimed): a raw node for which no identity, no author and no text can be
\* determined makes resolveComment return null, and a thread made of such a root
\* alone yields no record and no stored row.
C19_UndeterminedNodeNeverStored ==
    rawThreads # <<>> =>
        LET th == rawThreads[1]
        IN  /\ \A n \in {th.root, th.reply, th.nested} :
                  (Undetermined(n) /\ n.via = "viewModel") =>
                      ResolveComment(n, entityStore).null
            /\ (Undetermined(th.root) /\ th.reply = NoNode /\ th.nested = NoNode
                  /\ ~th.more) => (results = <<>> /\ saved = {})

\* C20 (as claimed): when no seed token can be found or the authentication context
\* is missing -- the first fetchCommentsViaContinuation call sends no request -- the
\* session returns null, whatever the page displays.
C20_NoSeedReturnsNull ==
    (pc = "done" /\ mainCalls = 1 /\ mainFetches = 0) => returned.null

\* ------------------------------------------------------------------------ C21
Ended == pc \in {"done", "failed"}

\* C21: extractComments never ends in a failure of its own: whatever main fetches,
\* reply fetches, writes, the opening or clearing of the database and the final read
\* did, its promise is never rejected, and once the call has ended the promise is
\* resolved, the guard released, with null or with a non-empty record list (null
\* whenever the catch block ended it).
C21_NeverRejects ==
    /\ ~returned.raised
    /\ Ended => /\ ~isExtracting
                /\ returned.null <=> returned.comments = {}
    /\ pc = "failed" => returned.null

\* the final read failed after a harvest in which a main fetch failed, a reply
\* fetch was made and a write failed
C21_Witness ==
    /\ pc = "failed"
    /\ handed # {}
    /\ \E i \in 1..Len(pendingWrites) : pendingWrites[i].status = "err"
    /\ \E k \in 1..Len(pages) : pages[k].outcome # "ok"
    /\ \E r \in ReplyTokens : replyFetches[r] > 0

\* ------------------------------------------------------------------------ C22
\* the latest main response has gone through the loop body
Delivered == Len(pages) > 0 /\ batchNumber = Len(pages) + 1

\* C22: when the result of main page k carries a next token, the loop body issues
\* the fetch for page k+1 first: before the records of page k are handed to
\* saveCommentBatch and before any of its descriptors is given to replyQueue.add;
\* and a pass issues at most one fetch.
C22_NextFetchFirst ==
    /\ \A i \in 2..Len(lastPass) : lastPass[i] # "fetch"
    /\ (Delivered /\ pages[Len(pages)].outcome = "ok" /\ NextTokenOf(Len(pages)) # 0)
          => (lastPass # <<>> /\ lastPass[1] = "fetch")

\* a pass that issued the next fetch, then wrote its records, then enqueued a task
C22_Witness ==
    /\ Delivered
    /\ Len(lastPass) >= 3
    /\ lastPass[1] = "fetch"
    /\ lastPass[2] = "save"
    /\ lastPass[3] = "add"

\* ------------------------------------------------------------------------ C23
\* C23 (as claimed): during Fetching the Walker never waits for a reply fetch or for
\* the write of a batch before it requests the next main page: while the loop runs,
\* the only request the Walker is suspended on is a main-page request, so no reply
\* request lies between the response of page k and the request for page k+1.
\* Violated: a thread that carries its reply continuation inside the legacy
\* "contents" array makes processCommentThread await fetchReplies inline.
C23_NoReplyFetchBeforeNextPage ==
    pc = "fetching" => mainFetch.phase = "net"

\* ------------------------------------------------------------------------ C24
\* after process() has returned, a waiting task means that all slots are taken
WorkConserving == queue # <<>> => running = ReplyConcurrency

\* a step in which a running task settles
SettleStep == \E t \in Tasks : qStatus[t] = "running" /\ qStatus'[t] \in {"resolved", "rejected"}

\* in that step running is decremented and, if a task waits, the head of the queue
\* is admitted in the same step
SettleAdmitsHead ==
    SettleStep =>
        IF queue = <<>>
        THEN running' = running - 1 /\ queue' = <<>>
        ELSE /\ running' = running
             /\ queue' = Tail(queue)
             /\ qStatus'[Head(queue)] = "running"

\* C24: whenever a running SimpleQueue task settles, running is decremented and the
\* head of a non-empty queue is admitted at once; so the queue is work-conserving
\* and, when every started task settles, every task ever added starts and settles.
C24_WorkConservingAndLive ==
    /\ []WorkConserving
    /\ [][SettleAdmitsHead]_vars
    /\ \A t \in Tasks : (qStatus[t] = "queued") ~> (qStatus[t] \in {"resolved", "rejected"})

\* a task that had to wait was started by the settlement of another one, and has
\* settled itself
C24_Witness ==
    /\ \E t \in Tasks : t > ReplyConcurrency /\ qStatus[t] \in {"resolved", "rejected"}
    /\ running = ReplyConcurrency

\* ------------------------------------------------------------------------ C25
\* C25: the main walk always terminates, also on a chain of next tokens that leads
\* back into itself: every pass of the loop raises batchNumber by one, the loop goes
\* on only with a next token and below the ceiling, and it is left as soon as a
\* fetch yields no next token or the ceiling is reached; so never more than
\* SafetyCeiling batches are processed.
C25_WalkBounded ==
    /\ [](/\ batchNumber - 1 <= SafetyCeiling
          /\ pc = "fetching" => batchNumber <= SafetyCeiling /\ mainFetch.phase = "net"
          /\ mainCalls <= SafetyCeiling + 1)
    /\ [][pc = "fetching" =>
            /\ batchNumber' = batchNumber + 1
            /\ pc' \in {"fetching", "onIdle"}
            /\ pc' = "fetching" <=> (mainFetch'.phase = "net" /\ batchNumber' <= SafetyCeiling)]_vars

\* a session on a cycle of tokens that was stopped by the ceiling and has ended
C25_Witness ==
    /\ pc = "done"
    /\ loopTo # 0
    /\ batchNumber = SafetyCeiling + 1
    /\ mainCalls = SafetyCeiling + 1

\* ------------------------------------------------------------------------ C26
FailedPage == \E k \in 1..Len(pages) : pages[k].outcome # "ok"

\* a step in which a main fetch comes back failed or with a malformed body
MainFailureStep == Len(pages') > Len(pages) /\ pages'[Len(pages')].outcome # "ok"

\* C26: a main fetch that failed, was answered with a non-success status or with a
\* malformed body gives the loop an empty batch without a next token: in that step
\* nothing is written or enqueued, no further main fetch is issued and the loop is
\* left for the drain; no main fetch follows later, and at the end every batch
\* whose write succeeded is in the final snapshot.
C26_MainFailureEndsWalk ==
    /\ [](FailedPage =>
            /\ LeftLoop
            /\ mainFetch = NoFetch
            /\ pages[Len(pages)].outcome # "ok"
            /\ mainCalls = Len(pages)
            /\ pc = "done" =>
                  \A i \in 1..Len(pendingWrites) :
                      pendingWrites[i].status = "ok" => pendingWrites[i].recs \subseteq snapshot)
    /\ [][MainFailureStep =>
            /\ pc' = "onIdle"
            /\ mainCalls' = mainCalls
            /\ mainFetches' = mainFetches
            /\ UNCHANGED <<handed, pendingWrites, store, queue, running, submitted>>]_vars

\* the second page failed on a malformed body; the first page's records and a
\* reply batch are in the snapshot the session ended with
C26_Witness ==
    /\ pc = "done"
    /\ Len(pages) = 2
    /\ pages[2].outcome = "malformed"
    /\ \E c \in snapshot : ~c.isReply
    /\ \E c \in snapshot : c.isReply

\* ------------------------------------------------------------------------ C27
WriteFailed == \E i \in 1..Len(pendingWrites) : pendingWrites[i].status = "err"

\* a step in which the transaction of a write fails
WriteFailStep ==
    \E i \in 1..Len(pendingWrites) :
        pendingWrites[i].status = "inflight" /\ pendingWrites'[i].status = "err"

ForwardedKeys ==
    UNION {{DedupKey(pages[k].descs[j]) : j \in 1..Len(pages[k].descs)} :
              k \in {i \in 1..Len(pages) : i < batchNumber}}

\* a step that is not a step of the Walker's loop
NotWalkerStep == pages' = pages /\ mainFetch' = mainFetch

ForwardedTokens ==
    UNION {{pages[k].descs[j].tok : j \in 1..Len(pages[k].descs)} :
              k \in {i \in 1..Len(pages) : i < batchNumber}}

\* C29 (as claimed): the dedup key of a descriptor is its token string, whether the
\* descriptor holds the token as a raw string or as an endpoint object around it
\* (every descriptor here carries a token string); descriptors with the same token
\* string get the same key, so one task is submitted per token string.
\* Violated: a raw string has neither .continuationCommand nor .token, so its key
\* is its JSON text.
C29_KeyIsTokenString ==
    /\ \A key \in processedReplyTokens : key[1] = "token"
    /\ Len(submitted) = Cardinality(ForwardedTokens)

\* ------------------------------------------------------------------------ C30
\* the thread under observation has a root carried as a comment view model
RootResolved == rawThreads # <<>> /\ rawThreads[1].root.via = "viewModel"

\* the root's key has a payload in the EntityStore
RootHasPayload ==
    rawThreads[1].root.key # NoId /\ rawThreads[1].root.key \in DOMAIN entityStore

\* C30: lookup precedence of resolveComment: when the node's key has a payload in
\* the EntityStore, the record's content (text, author) is what that payload
\* gives -- empty or defaulted where the payload has none -- whatever the node
\* carries inline; only without a payload is the node's inline content used.  The
\* record's id is the node's key in both cases.
C30_PayloadBeforeInline ==
    RootResolved =>
        LET vm == rawThreads[1].root
            r == results[1]
        IN  /\ r.id = vm.key
            /\ IF RootHasPayload
               THEN /\ r.text = PayloadText(entityStore[vm.key])
                    /\ r.author = OrElse(PayloadAuthor(entityStore[vm.key]), "Unknown")
               ELSE /\ r.text = vm.text
                    /\ r.author = OrElse(vm.author, "Unknown")

\* a node with inline text and author whose key has a payload that says otherwise
C30_Witness ==
    /\ RootResolved
    /\ RootHasPayload
    /\ rawThreads[1].root.text = "t"
    /\ rawThreads[1].root.author = "u"
    /\ results[1].text # "t"
    /\ results[1].author # "u"

C32_SessionReachesDone == <>(pc = "done")

\* ------------------------------------------------------------------------ C33
InProgress == pc \in {"fetching", "onIdle", "barrier", "reading"}

\* C33: the single-flight guard is always released: isExtracting is true exactly
\* while an accepted session is in progress, so it is false once the session has
\* ended -- with records, with null, or in the catch block -- and a call made after
\* the end is accepted.
C33_GuardReleased ==
    /\ [](isExtracting <=> InProgress)
    /\ [][(Ended /\ callVars' # callVars) =>
             /\ sessionNo' = sessionNo + 1
             /\ rejectedCalls' = rejectedCalls
             /\ isExtracting']_vars

\* a second session was accepted after the first had ended, and has itself ended
\* in the catch block
C33_Witness ==
    /\ sessionNo = 2
    /\ pc = "failed"
    /\ ~isExtracting
    /\ handed # {}

\* ------------------------------------------------------------------------ C34
\* C34 (as claimed): every main fetch the Walker issues is consumed: once the loop
\* is left (drain, final read, end) no main fetch is in flight, and every call of
\* fetchCommentsViaContinuation has had its result go through the loop body; also
\* when the walk stops at the safety ceiling.
\* Violated at the ceiling: the fetch for the next page is issued before the break.
C34_NoMainFetchAbandoned ==
    LeftLoop => (mainFetch = NoFetch /\ mainCalls = batchNumber - 1)

\* ------------------------------------------------------------------------ C35
\* Promise.all(pendingWrites) has been called
BarrierTaken == pc \in {"barrier", "reading", "done"}

C36_EveryTaskSendsRequest ==
    \A i \in 1..Len(submitted) :
        (\A j \in 1..Len(queue) : DedupKey(queue[j]) # submitted[i])
            => replyFetches[submitted[i][2]] > 0

\* ------------------------------------------------------------------------ C37
\* C37: when no write fails, the identities in the final snapshot are exactly the
\* identities of the records handed to saveCommentBatch during the session --
\* nothing lost, nothing from before the session -- in whatever order writes and
\* reply tasks completed, and the snapshot is no larger than the reported total.
C37_SnapshotIsWhatWasHanded ==
    (pc = "done" /\ NoWriteFailed) =>
        /\ Ids(snapshot) = Ids(handed)
        /\ Cardinality(snapshot) <= totalFetched + totalRepliesFetched

\* a session over a store with an old row: three writes or more, main and reply
\* records, all read back
C37_Witness ==
    /\ pc = "done"
    /\ NoWriteFailed
    /\ Len(pendingWrites) >= 3
    /\ \E c \in snapshot : c.isReply
    /\ Cardinality(snapshot) >= 3
    /\ Ids(snapshot) = Ids(handed)

\* C38: a YCA_EXTRACT_DATA request that arrives while a harvest session is in progress
\* causes no YCA_DATA_EXTRACTED message to be posted before that session has finished,
\* and a rejected request produces no result message of its own: every message posted
\* comes from a call that was accepted and is posted when no session is in progress.
C38_NoResultFromRejectedRequest ==
    \A i \in DOMAIN posted : ~posted[i].rejected /\ ~posted[i].inProgress

\* C39: in batch mode the worker processes videos one at a time: a tab is opened only
\* when the data of every tab opened before it has been received, no queued video is
\* opened twice, and YCA_QUEUE_COMPLETE is sent only when every queued video has been
\* opened and answered.
C39_OneVideoAtATime ==
    /\ \A i \in DOMAIN opened : ~opened[i].pending
    /\ \A i, j \in DOMAIN opened : i # j => opened[i].video # opened[j].video
    /\ \A i \in DOMAIN completes : completes[i]

====
